---- MODULE Spec2Model ----
(***************************************************************************)
(* Model of git-action-tag-validate-version: the Docker tag recognizer     *)
(* (src/unnamed/part_000, compiled in src/dist/parsers/docker.js), the     *)
(* parser registry and the other recognizers it dispatches to, and the     *)
(* action entry point run() of src/src/index.ts.                           *)
(*                                                                         *)
(* Tags are TLA+ strings; a character is a string of length one.           *)
(***************************************************************************)
EXTENDS Integers, Sequences, FiniteSets, TLC

VARIABLES
    \* ---- the parser harness (ParserSpec) ----
    ptag,       \* the tag handed to the recognizers
    pstep,      \* "init" | "probed" | "parsed" | "dispatched"
    pcan,       \* DockerParser.canParse(ptag)
    pres,       \* DockerParser.parse(ptag)
    psel,       \* the scheme selector handed to ParserRegistry.parse
    rres,       \* ParserRegistry.parse(ptag, psel)
    \* ---- one execution of run() (Spec) ----
    inputs,             \* the action's inputs, as core.getInput returns them
    pc,                 \* position in run()
    tagInput,           \* core.getInput('tag')
    versionTypeInput,   \* core.getInput('versionType') || 'auto'
    tag,                \* the tag obtained from git, or Null
    versionType,        \* the selector handed to the registry
    parseResult,        \* the registry's result
    commit,             \* extractCommit(tag)
    outputs,            \* what core.setOutput has set
    registryCalls,      \* the calls of parserRegistry.parse made so far, as <<tag, type>>
    extractCalls,       \* the calls of extractCommit made so far, by argument
    failedMsg           \* core.setFailed's message, "" when not failed

parserVars == <<ptag, pstep, pcan, pres, psel, rres>>
runVars == <<inputs, pc, tagInput, versionTypeInput, tag, versionType, parseResult,
             commit, outputs, registryCalls, extractCalls, failedMsg>>
vars == <<ptag, pstep, pcan, pres, psel, rres,
          inputs, pc, tagInput, versionTypeInput, tag, versionType, parseResult,
          commit, outputs, registryCalls, extractCalls, failedMsg>>

(***************************************************************************)
(* Bounds                                                                  *)
(***************************************************************************)
\* Every string over Alphabet of at most MaxLen characters is a tag.
MaxLen == 3

(***************************************************************************)
(* Characters and strings                                                  *)
(***************************************************************************)
Ch(s, i) == SubSeq(s, i, i)

UpperStr == "ABCDEFGHIJKLMNOPQRSTUVWXYZ"
LowerStr == "abcdefghijklmnopqrstuvwxyz"
Digits == {"0", "1", "2", "3", "4", "5", "6", "7", "8", "9"}
UpperLetters == {Ch(UpperStr, i) : i \in 1..Len(UpperStr)}
LowerLetters == {Ch(LowerStr, i) : i \in 1..Len(LowerStr)}

\* \w of a JavaScript regular expression without the u flag
WordChars == Digits \cup UpperLetters \cup LowerLetters \cup {"_"}
\* [\w.-] and [A-Za-z0-9_.-]
TagRestChars == WordChars \cup {".", "-"}

LowerOf(c) ==
    IF c \in UpperLetters
    THEN Ch(LowerStr, CHOOSE i \in 1..Len(UpperStr) : Ch(UpperStr, i) = c)
    ELSE c

\* String.prototype.toLowerCase
RECURSIVE toLowerCase(_)
toLowerCase(s) ==
    IF Len(s) = 0 THEN ""
    ELSE IF Len(s) = 1 THEN LowerOf(s)
    ELSE LET h == Len(s) \div 2
         IN  toLowerCase(SubSeq(s, 1, h)) \o toLowerCase(SubSeq(s, h + 1, Len(s)))

\* String.prototype.slice(from, to) with 1-based inclusive positions
Slice(s, from, to) == IF from > to THEN "" ELSE SubSeq(s, from, to)

\* String.prototype.indexOf(c), 1-based; 0 stands for JavaScript's -1
indexOf(s, c) ==
    IF \E i \in 1..Len(s) : Ch(s, i) = c
    THEN CHOOSE i \in 1..Len(s) : Ch(s, i) = c /\ \A j \in 1..(i - 1) : Ch(s, j) # c
    ELSE 0

\* First position at or after i that does not hold a digit: the end of \d*
DigitRunEnd(s, i) ==
    LET stops == {j \in i..Len(s) : Ch(s, j) \notin Digits}
    IN  IF stops = {} THEN Len(s) + 1
        ELSE CHOOSE j \in stops : \A k \in stops : j <= k

AllIn(s, from, set) == \A i \in from..Len(s) : Ch(s, i) \in set

RECURSIVE Rep(_, _)
Rep(c, n) ==
    IF n = 0 THEN ""
    ELSE LET h == Rep(c, n \div 2)
         IN  IF n % 2 = 0 THEN h \o h ELSE h \o h \o c

(***************************************************************************)
(* types: VersionType, VersionInfo, ParseResult                            *)
(***************************************************************************)
SEMVER == "semver"
CALVER == "calver"
DATE_BASED == "date-based"
DOCKER == "docker"
AUTO == "auto"
\* Object.values(VersionType)
VersionTypeValues == {SEMVER, CALVER, DATE_BASED, DOCKER, AUTO}

EmptyInfo == [major |-> "", minor |-> "", patch |-> "", prerelease |-> "", build |-> ""]

\* BaseParser.createFailedResult
createFailedResult(t) ==
    [isValid |-> FALSE, version |-> t, info |-> EmptyInfo, format |-> ""]

(***************************************************************************)
(* DockerParser                                                            *)
(***************************************************************************)
specialTags == {"latest", "stable", "dev", "test", "prod", "production", "staging"}

\* {0,127} of dockerTagPattern
DockerTagMaxRest == 127

NoMatch == [matched |-> FALSE, major |-> "", minor |-> "", patch |-> "", suffix |-> ""]

\* Mutant of dockerVersionPattern: the minor group is not optional
dockerVersionPattern_minorRequired(t) ==
    LET n == Len(t)
        p0 == IF n >= 1 /\ Ch(t, 1) \in {"v", "V"} THEN 2 ELSE 1
        p1 == DigitRunEnd(t, p0)
        hasMinor == p1 <= n /\ Ch(t, p1) = "." /\ DigitRunEnd(t, p1 + 1) > p1 + 1
        p2 == IF hasMinor THEN DigitRunEnd(t, p1 + 1) ELSE p1
        hasPatch == p2 <= n /\ Ch(t, p2) = "." /\ DigitRunEnd(t, p2 + 1) > p2 + 1
        p3 == IF hasPatch THEN DigitRunEnd(t, p2 + 1) ELSE p2
        hasSuffix == p3 < n /\ Ch(t, p3) = "-" /\ AllIn(t, p3 + 1, TagRestChars)
    IN  IF p1 > p0 /\ hasMinor /\ (p3 = n + 1 \/ hasSuffix)
        THEN [matched |-> TRUE,
              major |-> Slice(t, p0, p1 - 1),
              minor |-> Slice(t, p1 + 1, p2 - 1),
              patch |-> IF hasPatch THEN Slice(t, p2 + 1, p3 - 1) ELSE "",
              suffix |-> IF hasSuffix THEN Slice(t, p3 + 1, n) ELSE ""]
        ELSE NoMatch

\* /^v?(\d+)(?:\.(\d+))?(?:\.(\d+))?(?:-([\w.-]+))?$/i : the match of the tag, an
\* unmatched optional group being "" as the destructuring defaults make it
dockerVersionPattern(t) ==
    LET n == Len(t)
        p0 == IF n >= 1 /\ Ch(t, 1) \in {"v", "V"} THEN 2 ELSE 1
        p1 == DigitRunEnd(t, p0)
        hasMinor == p1 <= n /\ Ch(t, p1) = "." /\ DigitRunEnd(t, p1 + 1) > p1 + 1
        p2 == IF hasMinor THEN DigitRunEnd(t, p1 + 1) ELSE p1
        hasPatch == p2 <= n /\ Ch(t, p2) = "." /\ DigitRunEnd(t, p2 + 1) > p2 + 1
        p3 == IF hasPatch THEN DigitRunEnd(t, p2 + 1) ELSE p2
        hasSuffix == p3 < n /\ Ch(t, p3) = "-" /\ AllIn(t, p3 + 1, TagRestChars)
    IN  IF p1 > p0 /\ (p3 = n + 1 \/ hasSuffix)
        THEN [matched |-> TRUE,
              major |-> Slice(t, p0, p1 - 1),
              minor |-> IF hasMinor THEN Slice(t, p1 + 1, p2 - 1) ELSE "",
              patch |-> IF hasPatch THEN Slice(t, p2 + 1, p3 - 1) ELSE "",
              suffix |-> IF hasSuffix THEN Slice(t, p3 + 1, n) ELSE ""]
        ELSE NoMatch

\* Mutant of dockerTagPattern: the hyphen is missing from the character class
dockerTagPattern_noHyphen(t) ==
    /\ Len(t) >= 1
    /\ Len(t) <= 1 + DockerTagMaxRest
    /\ Ch(t, 1) \in WordChars
    /\ AllIn(t, 2, WordChars \cup {"."})

\* /^[A-Za-z0-9_][A-Za-z0-9_.-]{0,127}$/ .test(tag)
dockerTagPattern(t) ==
    /\ Len(t) >= 1
    /\ Len(t) <= 1 + DockerTagMaxRest
    /\ Ch(t, 1) \in WordChars
    /\ AllIn(t, 2, TagRestChars)

\* Mutant of DockerParser.canParse: the version pattern is not consulted
DockerParser_canParse_noVersion(t) ==
    \/ toLowerCase(t) \in specialTags
    \/ dockerTagPattern(t)

DockerParser_canParse(t) ==
    \/ toLowerCase(t) \in specialTags
    \/ dockerVersionPattern(t).matched
    \/ dockerTagPattern(t)

\* String.prototype.lastIndexOf(c), 1-based; 0 stands for JavaScript's -1
lastIndexOf(s, c) ==
    IF \E i \in 1..Len(s) : Ch(s, i) = c
    THEN CHOOSE i \in 1..Len(s) : Ch(s, i) = c /\ \A j \in (i + 1)..Len(s) : Ch(s, j) # c
    ELSE 0

\* Mutant of DockerParser.reconstructVersion: the root ends at the last '-'
DockerParser_reconstructVersion_lastDash(info, originalTag) ==
    IF toLowerCase(originalTag) \in specialTags
    THEN originalTag
    ELSE IF info.major = ""
    THEN LET dashIndex == lastIndexOf(originalTag, "-")
         IN  IF dashIndex = 0 THEN originalTag ELSE Slice(originalTag, 1, dashIndex - 1)
    ELSE LET patch == IF info.patch # "" THEN info.patch ELSE "0"
             version == info.major \o "." \o info.minor \o "." \o patch
         IN  IF info.prerelease # "" THEN version \o "-" \o info.prerelease ELSE version

DockerParser_reconstructVersion(info, originalTag) ==
    IF toLowerCase(originalTag) \in specialTags
    THEN originalTag
    ELSE IF info.major = ""
    THEN LET dashIndex == indexOf(originalTag, "-")
         IN  IF dashIndex = 0 THEN originalTag ELSE Slice(originalTag, 1, dashIndex - 1)
    ELSE LET patch == IF info.patch # "" THEN info.patch ELSE "0"
             version == info.major \o "." \o info.minor \o "." \o patch
         IN  IF info.prerelease # "" THEN version \o "-" \o info.prerelease ELSE version

\* BaseParser.createSuccessResult, as DockerParser inherits it
DockerParser_createSuccessResult(t, info) ==
    [isValid |-> TRUE,
     version |-> DockerParser_reconstructVersion(info, t),
     info |-> info,
     format |-> DOCKER]

\* Mutant of DockerParser.parse: the failure result is built from lowerTag
DockerParser_parse_echoLowered(t) ==
    IF toLowerCase(t) \in specialTags
    THEN DockerParser_createSuccessResult(t, EmptyInfo)
    ELSE LET match == dockerVersionPattern(t)
         IN  IF ~match.matched
             THEN IF ~dockerTagPattern(t)
                  THEN createFailedResult(toLowerCase(t))
                  ELSE LET dashIndex == indexOf(t, "-")
                           remainder == IF dashIndex = 0 THEN ""
                                        ELSE Slice(t, dashIndex + 1, Len(t))
                       IN  DockerParser_createSuccessResult(t,
                               [major |-> "", minor |-> "", patch |-> "",
                                prerelease |-> remainder, build |-> ""])
             ELSE DockerParser_createSuccessResult(t,
                      [major |-> match.major, minor |-> match.minor,
                       patch |-> match.patch, prerelease |-> match.suffix,
                       build |-> ""])

DockerParser_parse(t) ==
    IF toLowerCase(t) \in specialTags
    THEN DockerParser_createSuccessResult(t, EmptyInfo)
    ELSE LET match == dockerVersionPattern(t)
         IN  IF ~match.matched
             THEN IF ~dockerTagPattern(t)
                  THEN createFailedResult(t)
                  ELSE LET dashIndex == indexOf(t, "-")
                           remainder == IF dashIndex = 0 THEN ""
                                        ELSE Slice(t, dashIndex + 1, Len(t))
                       IN  DockerParser_createSuccessResult(t,
                               [major |-> "", minor |-> "", patch |-> "",
                                prerelease |-> remainder, build |-> ""])
             ELSE DockerParser_createSuccessResult(t,
                      [major |-> match.major, minor |-> match.minor,
                       patch |-> match.patch, prerelease |-> match.suffix,
                       build |-> ""])

(***************************************************************************)
(* The suffix grammar shared by the Semver and Calver recognizers:        *)
(* -PRERELEASE and +BUILD, each a run of dot-separated, non-empty          *)
(* identifiers over [0-9A-Za-z-]                                           *)
(***************************************************************************)
IdentChars == Digits \cup UpperLetters \cup LowerLetters \cup {"-"}

dottedIdentifiers(s) ==
    /\ s # ""
    /\ \A i \in 1..Len(s) : Ch(s, i) \in IdentChars \cup {"."}
    /\ Ch(s, 1) # "." /\ Ch(s, Len(s)) # "."
    /\ \A i \in 1..(Len(s) - 1) : ~(Ch(s, i) = "." /\ Ch(s, i + 1) = ".")

\* (?:-(PRERELEASE))?(?:\+(BUILD))?$ matched against t from position p
suffixPattern(t, p) ==
    LET n == Len(t)
        plusAt == IF \E i \in p..n : Ch(t, i) = "+"
                  THEN CHOOSE i \in p..n : Ch(t, i) = "+" /\ \A j \in p..(i - 1) : Ch(t, j) # "+"
                  ELSE n + 1
        hasPre == p <= n /\ Ch(t, p) = "-"
        pre == IF hasPre THEN Slice(t, p + 1, plusAt - 1) ELSE ""
        hasBuild == plusAt <= n
        build == IF hasBuild THEN Slice(t, plusAt + 1, n) ELSE ""
    IN  [matched |-> /\ (hasPre \/ plusAt = p)
                     /\ (hasPre => dottedIdentifiers(pre))
                     /\ (hasBuild => dottedIdentifiers(build)),
         prerelease |-> pre,
         build |-> build]

NoVersionMatch ==
    [matched |-> FALSE, prefix |-> "", major |-> "", minor |-> "", patch |-> "",
     prerelease |-> "", build |-> ""]

\* v?(\d+)\.(\d+)(?:\.(\d+))? followed by the suffix grammar
dottedVersionPattern(t) ==
    LET n == Len(t)
        p0 == IF n >= 1 /\ Ch(t, 1) = "v" THEN 2 ELSE 1
        p1 == DigitRunEnd(t, p0)
        hasMinor == p1 <= n /\ Ch(t, p1) = "." /\ DigitRunEnd(t, p1 + 1) > p1 + 1
        p2 == IF hasMinor THEN DigitRunEnd(t, p1 + 1) ELSE p1
        hasPatch == p2 <= n /\ Ch(t, p2) = "." /\ DigitRunEnd(t, p2 + 1) > p2 + 1
        p3 == IF hasPatch THEN DigitRunEnd(t, p2 + 1) ELSE p2
        sfx == suffixPattern(t, p3)
    IN  IF p1 > p0 /\ hasMinor /\ sfx.matched
        THEN [matched |-> TRUE,
              prefix |-> Slice(t, 1, p0 - 1),
              major |-> Slice(t, p0, p1 - 1),
              minor |-> Slice(t, p1 + 1, p2 - 1),
              patch |-> IF hasPatch THEN Slice(t, p2 + 1, p3 - 1) ELSE "",
              prerelease |-> sfx.prerelease,
              build |-> sfx.build]
        ELSE NoVersionMatch

\* Shape-preserving reconstruction: the matched groups, as matched
dottedReconstructVersion(m) ==
    m.prefix \o m.major \o "." \o m.minor
        \o (IF m.patch # "" THEN "." \o m.patch ELSE "")
        \o (IF m.prerelease # "" THEN "-" \o m.prerelease ELSE "")
        \o (IF m.build # "" THEN "+" \o m.build ELSE "")

dottedSuccessResult(m, fmt) ==
    [isValid |-> TRUE,
     version |-> dottedReconstructVersion(m),
     info |-> [major |-> m.major, minor |-> m.minor, patch |-> m.patch,
               prerelease |-> m.prerelease, build |-> m.build],
     format |-> fmt]

PlausibleMonths == {"01", "02", "03", "04", "05", "06", "07", "08", "09", "10", "11", "12"}
PlausibleDays == PlausibleMonths \cup
    {"13", "14", "15", "16", "17", "18", "19", "20", "21", "22", "23", "24", "25",
     "26", "27", "28", "29", "30", "31"}

\* The leading group is plausibly a year: four digits of the 2000s, or two digits
\* next to a plausible month
isPlausibleYear(year, month) ==
    \/ Len(year) = 4 /\ Slice(year, 1, 2) = "20"
    \/ Len(year) = 2 /\ month \in PlausibleMonths

(***************************************************************************)
(* CalverParser, SemverParser, DateBasedParser                             *)
(***************************************************************************)
CalverParser_canParse(t) ==
    LET m == dottedVersionPattern(t)
    IN  /\ m.matched
        /\ isPlausibleYear(m.major, m.minor)
        /\ Len(m.minor) <= 2
        /\ Len(m.patch) <= 2

CalverParser_parse(t) ==
    IF CalverParser_canParse(t)
    THEN dottedSuccessResult(dottedVersionPattern(t), CALVER)
    ELSE createFailedResult(t)

\* A tag the Calver recognizer claims is never semver
SemverParser_canParse(t) ==
    LET m == dottedVersionPattern(t)
    IN  m.matched /\ ~isPlausibleYear(m.major, m.minor)

SemverParser_parse(t) ==
    IF SemverParser_canParse(t)
    THEN dottedSuccessResult(dottedVersionPattern(t), SEMVER)
    ELSE createFailedResult(t)

\* YYYYMMDD
DateBasedParser_canParse(t) ==
    /\ Len(t) = 8
    /\ AllIn(t, 1, Digits)
    /\ Slice(t, 5, 6) \in PlausibleMonths
    /\ Slice(t, 7, 8) \in PlausibleDays

DateBasedParser_parse(t) ==
    IF DateBasedParser_canParse(t)
    THEN [isValid |-> TRUE,
          version |-> t,
          info |-> [major |-> Slice(t, 1, 4), minor |-> Slice(t, 5, 6),
                    patch |-> Slice(t, 7, 8), prerelease |-> "", build |-> ""],
          format |-> DATE_BASED]
    ELSE createFailedResult(t)

(***************************************************************************)
(* ParserRegistry                                                          *)
(***************************************************************************)
\* The recognizers in priority order, Docker last
parsers == <<SEMVER, CALVER, DATE_BASED, DOCKER>>

canParseOf(fmt, t) ==
    CASE fmt = SEMVER -> SemverParser_canParse(t)
      [] fmt = CALVER -> CalverParser_canParse(t)
      [] fmt = DATE_BASED -> DateBasedParser_canParse(t)
      [] fmt = DOCKER -> DockerParser_canParse(t)

parseOf(fmt, t) ==
    CASE fmt = SEMVER -> SemverParser_parse(t)
      [] fmt = CALVER -> CalverParser_parse(t)
      [] fmt = DATE_BASED -> DateBasedParser_parse(t)
      [] fmt = DOCKER -> DockerParser_parse(t)

ParserRegistry_parse(t, type) ==
    IF type # AUTO
    THEN parseOf(type, t)
    ELSE LET accepting == {i \in 1..Len(parsers) : canParseOf(parsers[i], t)}
         IN  IF accepting = {}
             THEN createFailedResult(t)
             ELSE parseOf(parsers[CHOOSE i \in accepting : \A j \in accepting : i <= j], t)

(***************************************************************************)
(* The tags and inputs of the model                                        *)
(***************************************************************************)
Alphabet == {"v", "V", "d", "e", "0", "1", ".", "-", "+", "_"}

RECURSIVE StrsOfLen(_)
StrsOfLen(n) ==
    IF n = 0 THEN {""} ELSE {s \o c : s \in StrsOfLen(n - 1), c \in Alphabet}

ShortTags == UNION {StrsOfLen(n) : n \in 0..MaxLen}

\* Tags at and beyond the length limit of dockerTagPattern
LongTags ==
    {Rep("a", 1 + DockerTagMaxRest), Rep("a", 2 + DockerTagMaxRest),
     Rep("1", 1 + DockerTagMaxRest), Rep("1", 2 + DockerTagMaxRest),
     "1-" \o Rep("a", DockerTagMaxRest - 1), "1-" \o Rep("a", DockerTagMaxRest),
     "v1.2.3-" \o Rep("b", DockerTagMaxRest)}

ExampleTags ==
    {"v1.2.3", "1.2.3", "v1.2", "v1", "1", "v1.2.3-", "v1.2-alpine", "1-alpine",
     "1.2.3-alpine-3.18", "V1.2.3-ubuntu", "v1.2.3-alpha.1+build.1", "1.2.3+20240115",
     "3.23-d34fa4d2-ls4", "2024.01.15", "24.01.15", "2024.01", "24.01", "20240115",
     "latest", "Latest", "STABLE", "dev", "production", "staging-2",
     "my-custom-tag-v2", "abc", "invalid", "feature/x", "-rc1", ".hidden", "a b",
     "1.2.3.4", "1..2", "v1.2.3-a+b"}

Tags == ShortTags \cup ExampleTags \cup LongTags

\* string | null: the outcome of a tag lookup
Null == [found |-> FALSE, name |-> ""]
Some(t) == [found |-> TRUE, name |-> t]
NoInputs == [tag |-> "", versionType |-> ""]
Unset == "(unset)"
NoOutputs ==
    [isValid |-> Unset, version |-> Unset, format |-> Unset, major |-> Unset,
     minor |-> Unset, patch |-> Unset, prerelease |-> Unset, build |-> Unset,
     commit |-> Unset, year |-> Unset, month |-> Unset, day |-> Unset,
     hasPrerelease |-> Unset, hasBuild |-> Unset]
NoResult == [isValid |-> FALSE, version |-> "", info |-> EmptyInfo, format |-> ""]

(***************************************************************************)
(* ParserSpec: the recognizers applied to every tag                        *)
(***************************************************************************)
RunIdle ==
    /\ inputs = NoInputs
    /\ pc = "idle" /\ tagInput = "" /\ versionTypeInput = "" /\ tag = Null
    /\ versionType = "" /\ parseResult = NoResult /\ commit = ""
    /\ outputs = NoOutputs /\ registryCalls = <<>> /\ extractCalls = <<>>
    /\ failedMsg = ""

ParserInit ==
    /\ ptag \in Tags
    /\ pstep = "init" /\ pcan = FALSE /\ pres = NoResult /\ psel = "" /\ rres = NoResult
    /\ RunIdle

\* DockerParser.canParse(ptag)
Probe ==
    /\ pstep = "init"
    /\ pcan' = DockerParser_canParse(ptag)
    /\ pstep' = "probed"
    /\ UNCHANGED <<ptag, pres, psel, rres>>
    /\ UNCHANGED runVars

\* DockerParser.parse(ptag)
Parse ==
    /\ pstep = "probed"
    /\ pres' = DockerParser_parse(ptag)
    /\ pstep' = "parsed"
    /\ UNCHANGED <<ptag, pcan, psel, rres>>
    /\ UNCHANGED runVars

\* ParserRegistry.parse(ptag, type) for a selector of the enumeration
Dispatch ==
    /\ pstep = "parsed"
    /\ \E type \in VersionTypeValues :
          /\ psel' = type
          /\ rres' = ParserRegistry_parse(ptag, type)
    /\ pstep' = "dispatched"
    /\ UNCHANGED <<ptag, pcan, pres>>
    /\ UNCHANGED runVars

ParserNext == Probe \/ Parse \/ Dispatch

ParserSpec == ParserInit /\ [][ParserNext]_vars

(***************************************************************************)
(* Spec: one execution of run()                                            *)
(***************************************************************************)
Whitespace == {" ", "\t"}

\* String.prototype.trim
trim(s) ==
    LET kept == {i \in 1..Len(s) : Ch(s, i) \notin Whitespace}
    IN  IF kept = {} THEN ""
        ELSE SubSeq(s, CHOOSE i \in kept : \A j \in kept : i <= j,
                       CHOOSE i \in kept : \A j \in kept : j <= i)

\* The tags a lookup in the repository can yield
RunTags == UNION {StrsOfLen(n) : n \in 0..(MaxLen - 1)} \cup ExampleTags \cup LongTags

\* What the tag and versionType inputs are given as
TagInputValues == {"", "  ", " v1.2.3 "}
VersionTypeInputValues ==
    {"", "semver", "SemVer", "CALVER", "date-based", "Date-Based", "DATE_BASED",
     "docker", "Docker", "auto", "AUTO", "bogus"}

\* The commit identifiers extractCommit can derive from a tag
CommitValues == {"", "d34fa4d2"}

\* JavaScript truthiness of a string | null
truthy(t) == t.found /\ t.name # ""

setEmptyOutputs ==
    [isValid |-> "false", version |-> "", format |-> "", major |-> "",
     minor |-> "", patch |-> "", prerelease |-> "", build |-> "",
     commit |-> "", year |-> "", month |-> "", day |-> "",
     hasPrerelease |-> "false", hasBuild |-> "false"]

\* Mutant of the version type resolution: the input is not lower-cased
resolveVersionType_caseSensitive(input) ==
    IF input \in VersionTypeValues THEN input ELSE AUTO

\* versionTypeInput.toLowerCase() as VersionType, AUTO when it is no value of the enum
resolveVersionType(input) ==
    IF toLowerCase(input) \in VersionTypeValues THEN toLowerCase(input) ELSE AUTO

\* Mutant of the format-specific information: the flags are not gated on semver
formatSpecific_ungated(result) ==
    LET dated == result.format = CALVER \/ result.format = DATE_BASED
    IN  [year |-> IF dated THEN result.info.major ELSE "",
         month |-> IF dated THEN result.info.minor ELSE "",
         day |-> IF dated THEN result.info.patch ELSE "",
         hasPrerelease |-> IF result.info.prerelease # "" THEN "true" ELSE "false",
         hasBuild |-> IF result.info.build # "" THEN "true" ELSE "false"]

\* The format-specific information run() derives from the parse result
formatSpecific(result) ==
    LET dated == result.format = CALVER \/ result.format = DATE_BASED
        semver == result.format = SEMVER
    IN  [year |-> IF dated THEN result.info.major ELSE "",
         month |-> IF dated THEN result.info.minor ELSE "",
         day |-> IF dated THEN result.info.patch ELSE "",
         hasPrerelease |-> IF semver /\ result.info.prerelease # "" THEN "true" ELSE "false",
         hasBuild |-> IF semver /\ result.info.build # "" THEN "true" ELSE "false"]

\* The core.setOutput calls that end run()
setOutputs(result, sha) ==
    LET fs == formatSpecific(result)
    IN  [isValid |-> IF result.isValid THEN "true" ELSE "false",
         version |-> result.version,
         format |-> result.format,
         major |-> result.info.major,
         minor |-> result.info.minor,
         patch |-> result.info.patch,
         prerelease |-> result.info.prerelease,
         build |-> result.info.build,
         commit |-> sha,
         year |-> fs.year,
         month |-> fs.month,
         day |-> fs.day,
         hasPrerelease |-> fs.hasPrerelease,
         hasBuild |-> fs.hasBuild]

ParserIdle ==
    /\ ptag = "" /\ pstep = "idle" /\ pcan = FALSE /\ pres = NoResult
    /\ psel = "" /\ rres = NoResult

Init ==
    /\ inputs \in [tag : TagInputValues, versionType : VersionTypeInputValues]
    /\ pc = "start"
    /\ tagInput = "" /\ versionTypeInput = "" /\ tag = Null
    /\ versionType = "" /\ parseResult = NoResult /\ commit = ""
    /\ outputs = NoOutputs /\ registryCalls = <<>> /\ extractCalls = <<>>
    /\ failedMsg = ""
    /\ ParserIdle

\* Get inputs
GetInputs ==
    /\ pc = "start"
    /\ tagInput' = inputs.tag
    /\ versionTypeInput' = (IF inputs.versionType # "" THEN inputs.versionType ELSE "auto")
    /\ pc' = "lookup"
    /\ UNCHANGED <<inputs, tag, versionType, parseResult, commit, outputs,
                   registryCalls, extractCalls, failedMsg>>
    /\ UNCHANGED parserVars

\* Mutant of the lookup's continuation: the return after setEmptyOutputs is missing
AfterLookup_noReturn(found) ==
    /\ tag' = found
    /\ outputs' = (IF ~truthy(found) THEN setEmptyOutputs ELSE outputs)
    /\ pc' = "resolve"
    /\ UNCHANGED <<inputs, tagInput, versionTypeInput, versionType, parseResult,
                   commit, registryCalls, extractCalls, failedMsg>>
    /\ UNCHANGED parserVars

\* What follows a lookup: without a tag, empty outputs and return
AfterLookup(found) ==
    /\ tag' = found
    /\ IF ~truthy(found)
       THEN outputs' = setEmptyOutputs /\ pc' = "done"
       ELSE outputs' = outputs /\ pc' = "resolve"
    /\ UNCHANGED <<inputs, tagInput, versionTypeInput, versionType, parseResult,
                   commit, registryCalls, extractCalls, failedMsg>>
    /\ UNCHANGED parserVars

\* tag = await getTag(tagInput.trim())
LookupSpecified ==
    /\ pc = "lookup"
    /\ tagInput # "" /\ trim(tagInput) # ""
    /\ \E found \in {Null} \cup {Some(t) : t \in RunTags} : AfterLookup(found)

\* tag = await getMostRecentTag()
LookupMostRecent ==
    /\ pc = "lookup"
    /\ ~(tagInput # "" /\ trim(tagInput) # "")
    /\ \E found \in {Null} \cup {Some(t) : t \in RunTags} : AfterLookup(found)

\* The lookup rejects: the catch block of run()
LookupThrows ==
    /\ pc = "lookup"
    /\ failedMsg' = "error"
    /\ pc' = "failed"
    /\ UNCHANGED <<inputs, tagInput, versionTypeInput, tag, versionType, parseResult,
                   commit, outputs, registryCalls, extractCalls>>
    /\ UNCHANGED parserVars

\* Parse version type
ResolveVersionType ==
    /\ pc = "resolve"
    /\ versionType' = resolveVersionType(versionTypeInput)
    /\ pc' = "parse"
    /\ UNCHANGED <<inputs, tagInput, versionTypeInput, tag, parseResult, commit,
                   outputs, registryCalls, extractCalls, failedMsg>>
    /\ UNCHANGED parserVars

\* parseResult = parserRegistry.parse(tag, versionType)
ParseVersion ==
    /\ pc = "parse"
    /\ parseResult' = ParserRegistry_parse(tag.name, versionType)
    /\ registryCalls' = Append(registryCalls, [tag |-> tag.name, type |-> versionType])
    /\ pc' = "extract"
    /\ UNCHANGED <<inputs, tagInput, versionTypeInput, tag, versionType, commit,
                   outputs, extractCalls, failedMsg>>
    /\ UNCHANGED parserVars

\* commit = extractCommit(tag)
ExtractCommit ==
    /\ pc = "extract"
    /\ \E sha \in CommitValues : commit' = sha
    /\ extractCalls' = Append(extractCalls, tag.name)
    /\ pc' = "output"
    /\ UNCHANGED <<inputs, tagInput, versionTypeInput, tag, versionType, parseResult,
                   outputs, registryCalls, failedMsg>>
    /\ UNCHANGED parserVars

\* Extract format-specific information and set outputs
SetOutputs ==
    /\ pc = "output"
    /\ outputs' = setOutputs(parseResult, commit)
    /\ pc' = "done"
    /\ UNCHANGED <<inputs, tagInput, versionTypeInput, tag, versionType, parseResult,
                   commit, registryCalls, extractCalls, failedMsg>>
    /\ UNCHANGED parserVars

Next ==
    \/ GetInputs
    \/ LookupSpecified
    \/ LookupMostRecent
    \/ LookupThrows
    \/ ResolveVersionType
    \/ ParseVersion
    \/ ExtractCommit
    \/ SetOutputs

Spec == Init /\ [][Next]_vars

(***************************************************************************)
(* Properties of the recognizers (checked under ParserSpec)                *)
(***************************************************************************)
dockerParsed == pstep \in {"parsed", "dispatched"}

\* Docker's general tag grammar, as the documentation states it
GeneralTagGrammar(t) ==
    /\ Len(t) \in 1..128
    /\ Ch(t, 1) \in WordChars
    /\ \A i \in 2..Len(t) : Ch(t, i) \in WordChars \cup {".", "-"}

IsEcho(r, t) ==
    /\ r.version = t
    /\ r.format = ""
    /\ r.info.major = "" /\ r.info.minor = "" /\ r.info.patch = ""
    /\ r.info.prerelease = "" /\ r.info.build = ""

\* C1: echo-on-failure. A failure result of the registry (any selector) or of the
\* Docker recognizer carries the tag unchanged as version, an empty format and five
\* empty VersionInfo fields; the Docker recognizer fails on a tag that is not
\* special, not version-like and outside the general grammar.
C1_EchoOnFailure ==
    /\ (dockerParsed /\ ~pres.isValid) => IsEcho(pres, ptag)
    /\ (pstep = "dispatched" /\ ~rres.isValid) => IsEcho(rres, ptag)
    /\ (/\ dockerParsed
        /\ toLowerCase(ptag) \notin specialTags
        /\ ~dockerVersionPattern(ptag).matched
        /\ ~GeneralTagGrammar(ptag)) => (~pres.isValid /\ IsEcho(pres, ptag))

\* C1 witness: a tag with an upper-case letter that Docker and, under AUTO, the
\* registry both fail on
C1_Witness ==
    /\ pstep = "dispatched" /\ psel = AUTO
    /\ ptag = "V+"
    /\ ~pres.isValid /\ ~rres.isValid

\* The version of a result is MAJOR.MINOR.PATCH, three non-empty digit runs,
\* followed by -suffix exactly when the suffix is not empty
ThreeComponents(version, suffix) ==
    LET p1 == DigitRunEnd(version, 1)
        p2 == DigitRunEnd(version, p1 + 1)
        p3 == DigitRunEnd(version, p2 + 1)
    IN  /\ p1 > 1
        /\ p1 <= Len(version) /\ Ch(version, p1) = "."
        /\ p2 > p1 + 1
        /\ p2 <= Len(version) /\ Ch(version, p2) = "."
        /\ p3 > p2 + 1
        /\ Slice(version, p3, Len(version)) = (IF suffix = "" THEN "" ELSE "-" \o suffix)

\* C2: normalizing reconstruction. For every version-like tag Docker parse returns a
\* version of exactly three dot-separated non-empty digit runs, then -SUFFIX exactly
\* when a suffix was captured.
C2_NormalizingReconstruction ==
    (dockerParsed /\ dockerVersionPattern(ptag).matched)
        => ThreeComponents(pres.version, dockerVersionPattern(ptag).suffix)

\* C3 as stated: under AUTO, parse('v1') fails and echoes the tag.
C3_V1FailsUnderAuto ==
    (pstep = "dispatched" /\ psel = AUTO /\ ptag = "v1")
        => (~rres.isValid /\ rres.version = "v1" /\ rres.format = "")

\* C3 amended: under AUTO, Semver, Calver and DateBased decline 'v1' and Docker,
\* probed last, claims it as a version-like tag: the result is valid, of format
\* docker, with major '1' and empty minor, patch and build.
C3_V1ClaimedByDocker ==
    (pstep = "dispatched" /\ psel = AUTO /\ ptag = "v1")
        => /\ ~SemverParser_canParse(ptag)
           /\ ~CalverParser_canParse(ptag)
           /\ ~DateBasedParser_canParse(ptag)
           /\ pcan
           /\ rres.isValid /\ rres.format = DOCKER
           /\ rres.info.major = "1" /\ rres.info.minor = "" /\ rres.info.patch = ""
           /\ rres.info.prerelease = "" /\ rres.info.build = ""

C3_Witness == pstep = "dispatched" /\ psel = AUTO /\ ptag = "v1" /\ rres.isValid

\* C4 as stated: under AUTO, parse('v1.2.3-') fails and echoes the tag.
C4_TrailingDashFailsUnderAuto ==
    (pstep = "dispatched" /\ psel = AUTO /\ ptag = "v1.2.3-")
        => (~rres.isValid /\ rres.version = "v1.2.3-")

\* C4 amended: under AUTO, Semver, Calver and DateBased reject 'v1.2.3-' and so does
\* Docker's version-like branch, but Docker's opaque-tag branch accepts it: the
\* result is valid, of format docker, with version 'v1.2.3' and every VersionInfo
\* field empty.
C4_TrailingDashClaimedAsOpaque ==
    (pstep = "dispatched" /\ psel = AUTO /\ ptag = "v1.2.3-")
        => /\ ~SemverParser_canParse(ptag)
           /\ ~CalverParser_canParse(ptag)
           /\ ~DateBasedParser_canParse(ptag)
           /\ ~dockerVersionPattern(ptag).matched
           /\ rres.isValid /\ rres.format = DOCKER
           /\ rres.version = "v1.2.3"
           /\ rres.info = EmptyInfo

C4_Witness == pstep = "dispatched" /\ psel = AUTO /\ ptag = "v1.2.3-" /\ rres.isValid

\* C5: Docker parse fails, echoing the tag, on every tag outside the general tag
\* grammar; every tag it succeeds on satisfies the grammar, length limit included.
C5_GrammarViolationFails ==
    dockerParsed =>
        /\ ~GeneralTagGrammar(ptag) => (~pres.isValid /\ pres.version = ptag)
        /\ pres.isValid => GeneralTagGrammar(ptag)

HasDash(s) == \E i \in 1..Len(s) : Ch(s, i) = "-"

\* C6: opaque-tag decomposition. A tag of the general grammar that is neither
\* special nor version-like parses successfully with empty major, minor, patch and
\* build, version the part before its first '-' (the whole tag without a '-') and
\* prerelease the part after it.
C6_OpaqueDecomposition ==
    (/\ dockerParsed
     /\ GeneralTagGrammar(ptag)
     /\ toLowerCase(ptag) \notin specialTags
     /\ ~dockerVersionPattern(ptag).matched)
        => /\ pres.isValid
           /\ pres.info.major = "" /\ pres.info.minor = ""
           /\ pres.info.patch = "" /\ pres.info.build = ""
           /\ ~HasDash(pres.version)
           /\ IF HasDash(ptag)
              THEN pres.version \o "-" \o pres.info.prerelease = ptag
              ELSE pres.version = ptag /\ pres.info.prerelease = ""

C6_Witness ==
    /\ pstep = "parsed" /\ ptag = "my-custom-tag-v2"
    /\ pres.isValid /\ pres.version = "my" /\ pres.info.prerelease = "custom-tag-v2"

\* C9: DockerParser.canParse(t) is true exactly when DockerParser.parse(t) is valid.
C9_CanParseAgreesWithParse ==
    dockerParsed => (pcan <=> pres.isValid)

\* C9 witness: an over-length version-like tag, which only the version pattern accepts
C9_Witness ==
    /\ pstep = "parsed" /\ pcan /\ pres.isValid
    /\ Len(ptag) > 128 /\ pres.info.major # ""

(***************************************************************************)
(* Properties of run() (checked under Spec)                                *)
(***************************************************************************)
\* a and b are the same string up to the case of their letters
EqualsIgnoringCase(a, b) ==
    /\ Len(a) = Len(b)
    /\ \A i \in 1..Len(a) :
          \/ Ch(a, i) = Ch(b, i)
          \/ \E k \in 1..Len(UpperStr) :
                {Ch(a, i), Ch(b, i)} = {Ch(UpperStr, k), Ch(LowerStr, k)}

\* C7: the versionType input is compared case-insensitively against semver, calver,
\* date-based, docker and auto; an empty input and every input that is none of these
\* reaches the registry as AUTO and a recognized input as exactly that scheme, so the
\* registry is never called with a selector outside the enumeration.
C7_SelectorResolution ==
    \A i \in 1..Len(registryCalls) :
        LET type == registryCalls[i].type
            named == {v \in {"semver", "calver", "date-based", "docker", "auto"} :
                         EqualsIgnoringCase(inputs.versionType, v)}
        IN  /\ type \in {"semver", "calver", "date-based", "docker", "auto"}
            /\ \A v \in named : type = v
            /\ named = {} => type = "auto"
            /\ inputs.versionType = "" => type = "auto"

\* C7 witness: a mixed-case scheme name has reached the registry as that scheme
C7_Witness ==
    /\ Len(registryCalls) = 1
    /\ inputs.versionType = "Date-Based"
    /\ registryCalls[1].type = "date-based"

\* The tag lookup is over and yielded no tag
noTag == pc \notin {"start", "lookup", "failed"} /\ ~truthy(tag)

\* C8: no-tag short-circuit. When the lookup yields no tag the run returns with
\* isValid, hasPrerelease and hasBuild 'false' and every other output empty, and
\* calls neither the registry's parse nor the commit extractor; the registry's parse
\* is called at most once per run, and only with a tag that was obtained.
C8_NoTagShortCircuit ==
    /\ noTag =>
          /\ pc = "done"
          /\ registryCalls = <<>> /\ extractCalls = <<>>
          /\ outputs.isValid = "false"
          /\ outputs.hasPrerelease = "false" /\ outputs.hasBuild = "false"
          /\ \A f \in {"version", "format", "major", "minor", "patch", "prerelease",
                       "build", "commit", "year", "month", "day"} : outputs[f] = ""
    /\ Len(registryCalls) <= 1
    /\ registryCalls # <<>> => (tag.found /\ registryCalls[1].tag = tag.name)
    /\ extractCalls # <<>> => registryCalls # <<>>

\* C8 witness: a specified tag was not found and the run has returned
C8_Witness ==
    /\ pc = "done" /\ tag = Null /\ trim(tagInput) = "v1.2.3"
    /\ outputs.isValid = "false" /\ registryCalls = <<>>

\* C10: format-gated outputs. In a run that reached parsing, year, month and day are
\* the result's major, minor and patch for calver and date-based results and empty
\* otherwise; hasPrerelease (hasBuild) is 'true' exactly for a semver result with a
\* non-empty prerelease (build) and 'false' otherwise; so a Docker result with a
\* prerelease output and a failed parse both have hasPrerelease 'false'.
C10_FormatGatedOutputs ==
    (pc = "done" /\ registryCalls # <<>>) =>
        /\ outputs.format \in {"calver", "date-based"} =>
              /\ outputs.year = parseResult.info.major
              /\ outputs.month = parseResult.info.minor
              /\ outputs.day = parseResult.info.patch
        /\ outputs.format \notin {"calver", "date-based"} =>
              (outputs.year = "" /\ outputs.month = "" /\ outputs.day = "")
        /\ outputs.hasPrerelease \in {"true", "false"}
        /\ outputs.hasBuild \in {"true", "false"}
        /\ outputs.hasPrerelease = "true" <=>
              (outputs.format = "semver" /\ outputs.prerelease # "")
        /\ outputs.hasBuild = "true" <=>
              (outputs.format = "semver" /\ outputs.build # "")
        /\ outputs.format = parseResult.format
        /\ outputs.prerelease = parseResult.info.prerelease
        /\ outputs.build = parseResult.info.build
        /\ outputs.isValid = "false" =>
              /\ outputs.hasPrerelease = "false" /\ outputs.hasBuild = "false"
              /\ outputs.year = "" /\ outputs.month = "" /\ outputs.day = ""

\* C10 witness: a Docker result with a non-empty prerelease output
C10_Witness ==
    /\ pc = "done" /\ registryCalls # <<>>
    /\ outputs.format = "docker" /\ outputs.prerelease # ""
    /\ outputs.hasPrerelease = "false"

====
